---- MODULE Spec2Model ----
(***************************************************************************)
(* Model of src/prediction/predictor_model.py: the Forecaster wrapper that *)
(* keeps one autoregressive model per series id.                           *)
(*                                                                         *)
(* A panel (history or test data) is the number of rows it holds per id;   *)
(* an id with 0 rows is absent from the panel.  The model handed back by   *)
(* the regression library is the record of what the library was given at   *)
(* fit time (exogenous column list, training rows, seed).  The schema      *)
(* object the harness passes to every Forecaster is one shared mutable     *)
(* object; an instance read back from disk owns a private copy of it.      *)
(* `self` is the Forecaster the harness variable `model` is bound to; a    *)
(* second Forecaster built on the same schema object is followed only      *)
(* through what its fit does to that shared object.                        *)
(***************************************************************************)
EXTENDS Integers, Sequences, FiniteSets, TLC

\* ---------------------------------------------------------------- bounds
MaxRows == 2          \* most rows an id has in a history panel
MaxFwd == 2           \* most rows an id has in a test panel
MaxFits == 2          \* fit calls explored in one run

Ids == {1, 2}
HistoryRows == {0} \cup ((MaxRows - 1)..MaxRows)
FwdRows == {0} \cup ((MaxFwd - 1)..MaxFwd)
HistoryPanels == [Ids -> HistoryRows]
TestPanels == [Ids -> FwdRows]
NoPanel == [i \in Ids |-> 0]

\* -------------------------------------------- program constants, inputs
PREDICTOR_FILE_NAME == "predictor.joblib"
random_state == 0
time_col == "date"
TimeColDtypes == {"DATE", "DATETIME", "INT"}
DeclaredCovariates == {<<>>, <<"cov">>}
ForecastLengths == {1}
HistoryForecastRatios == {0, 1}       \* 0 stands for None (not configured)

VARIABLES
  schema,     \* the shared ForecastingSchema object
  hp,         \* the hyperparameters the Forecaster was constructed with
  self,       \* the Forecaster instance: its attributes
  disk,       \* content of <model_dir>/predictor.joblib, or NoFile
  lastOp,     \* the last public call: its arguments and what it returned/raised
  nfits,      \* number of fit calls made so far
  fitDone,    \* TRUE once some fit call on the instance has returned normally
  lastFit,    \* how the last fit call on the instance ended
  saved       \* the instance, and the schema it pointed at, when save last wrote it

vars == <<schema, hp, self, disk, lastOp, nfits, fitDone, lastFit, saved>>

NoFile == [file |-> "none"]
NoSchema == [time_col_dtype |-> "", future_covariates |-> <<>>, forecast_length |-> 0]
SharedRef == [ref |-> "shared", val |-> NoSchema]

\* ------------------------------------------------------------- __init__
Forecaster(sch, history_forecast_ratio, use_exogenous) ==
  [ use_exogenous  |-> use_exogenous,
    random_state   |-> random_state,
    is_trained     |-> FALSE,
    models         |-> <<>>,
    data_schema    |-> SharedRef,
    end_index      |-> <<>>,
    all_ids        |-> <<>>,
    history_length |-> IF history_forecast_ratio # 0
                       THEN sch.forecast_length * history_forecast_ratio
                       ELSE 0 ]

\* the schema object a data_schema attribute points at
SchemaVal(o, shared) == IF o.data_schema.ref = "shared" THEN shared ELSE o.data_schema.val
SchemaOf(o) == SchemaVal(o, schema)

\* ------------------------------------- _add_future_covariates_from_date
IsDateType(t) == t \in {"DATE", "DATETIME"}
year_col_name == time_col \o "_year"
month_col_name == time_col \o "_month"

\* the schema object after the call: += extends the schema's own
\* future_covariates list in place; the list is also what the call returns
AddFutureCovariates(sch, is_training) ==
  IF IsDateType(sch.time_col_dtype) /\ is_training
  THEN [sch EXCEPT !.future_covariates = @ \o <<year_col_name, month_col_name>>]
  ELSE sch

\* ------------------------------------------------------------ groupby
RECURSIVE SortedSeq(_)
SortedSeq(S) ==
  IF S = {} THEN <<>>
  ELSE LET m == CHOOSE x \in S : \A y \in S : x <= y
       IN <<m>> \o SortedSeq(S \ {m})

\* list(groups_by_ids.groups.keys()): the ids that have rows, sorted
GroupKeys(panel) == SortedSeq({i \in DOMAIN panel : panel[i] > 0})

Min(a, b) == IF a < b THEN a ELSE b

\* ------------------------------------------------------ _fit_on_series
\* exog handed to the library: the covariate columns, <<>> for None
Exog(o, covariates) ==
  IF covariates # <<>> /\ o.use_exogenous THEN covariates ELSE <<>>

\* Truncated without the history cut: every row of the series is used
TruncatedNoCut(o, n) == n

\* len(series[-history_length:]) when history_length is set, else len(series)
Truncated(o, n) == IF o.history_length # 0 THEN Min(n, o.history_length) ELSE n

\* the fitted ForecasterAutoreg: what the library was trained on
FittedModel(o, n_total, n_used, covariates) ==
  [ exog |-> Exog(o, covariates),
    first_row |-> n_total - n_used,
    n_rows |-> n_used,
    random_state |-> o.random_state ]

PutKey(f, k, v) == [x \in (DOMAIN f) \cup {k} |-> IF x = k THEN v ELSE f[x]]

\* the loop of fit over zip(all_ids, all_series), from position k on; the
\* library raises while fitting the series `bad` (0: it never raises)
RECURSIVE FitLoop(_, _, _, _, _, _)
FitLoop(o, panel, ids, k, covariates, bad) ==
  IF k > Len(ids) THEN [o |-> o, raised |-> FALSE]
  ELSE LET id == ids[k]
           n == Truncated(o, panel[id])
           o1 == [o EXCEPT !.end_index = PutKey(@, id, n)]
       IN IF id = bad
          THEN [o |-> o1, raised |-> TRUE]
          ELSE FitLoop([o1 EXCEPT !.models =
                           PutKey(@, id, FittedModel(o, panel[id], n, covariates))],
                       panel, ids, k + 1, covariates, bad)

\* FitResult with the trained flag raised before the loop over the series,
\* so that a fit that raises part-way leaves it set
FitResultFlagFirst(o, sch, panel, bad) ==
  LET sch1 == AddFutureCovariates(sch, TRUE)
      all_ids == GroupKeys(panel)
      loop == FitLoop([o EXCEPT !.models = <<>>, !.is_trained = TRUE], panel, all_ids, 1,
                      sch1.future_covariates, bad)
  IN IF loop.raised
     THEN [o |-> loop.o, schema |-> sch1, res |-> "LibraryError"]
     ELSE [o |-> [loop.o EXCEPT !.all_ids = all_ids,
                                !.data_schema = SharedRef],
           schema |-> sch1, res |-> "ok"]

\* ------------------------------------------------------------------ fit
FitResult(o, sch, panel, bad) ==
  LET sch1 == AddFutureCovariates(sch, TRUE)
      all_ids == GroupKeys(panel)
      loop == FitLoop([o EXCEPT !.models = <<>>], panel, all_ids, 1,
                      sch1.future_covariates, bad)
  IN IF loop.raised
     THEN [o |-> loop.o, schema |-> sch1, res |-> "LibraryError"]
     ELSE [o |-> [loop.o EXCEPT !.all_ids = all_ids,
                                !.is_trained = TRUE,
                                !.data_schema = SharedRef],
           schema |-> sch1, res |-> "ok"]

NoOut == [rows |-> <<>>, calls |-> <<>>]

\* model.fit(history, data_schema), data_schema being the shared schema object
Fit(panel, bad) ==
  /\ nfits < MaxFits
  /\ bad \in {0} \cup {i \in Ids : panel[i] > 0}
  /\ LET r == FitResult(self, schema, panel, bad)
     IN /\ self' = r.o
        /\ schema' = r.schema
        /\ lastOp' = [op |-> "fit", res |-> r.res, arg |-> panel, out |-> NoOut]
        /\ fitDone' = (fitDone \/ r.res = "ok")
        /\ lastFit' = IF r.res = "ok" THEN "ok" ELSE "raised"
  /\ nfits' = nfits + 1
  /\ UNCHANGED <<hp, disk, saved>>

\* fit of another Forecaster that was given the same schema object: what it
\* does to the shared object (the other instance itself is not followed)
FitOther ==
  /\ nfits < MaxFits
  /\ schema' = AddFutureCovariates(schema, TRUE)
  /\ lastOp' = [op |-> "fit_other", res |-> "ok", arg |-> NoPanel, out |-> NoOut]
  /\ nfits' = nfits + 1
  /\ UNCHANGED <<hp, self, disk, fitDone, lastFit, saved>>

\* ---------------------------------------------------- _predict_on_series
\* pd.RangeIndex(start=start, stop=start + len(future_df))
RangeIndex(start, stop) == [k \in 1..(stop - start) |-> start + k - 1]

\* future_df after the call (None when no model is found) and the call made
\* to the library's predict, for the series `id` with n forward rows
PredictOnSeries(o, id, n, covariates) ==
  LET start == o.end_index[id]
      index == RangeIndex(start, start + n)
      exog == Exog(o, covariates)
  IN IF id \in DOMAIN o.models
     THEN [ frame |-> [k \in 1..n |-> [idx |-> index[k], step |-> k]],
            none |-> FALSE,
            calls |-> << [id |-> id, steps |-> n, index |-> index, exog |-> exog,
                          model |-> o.models[id]] >> ]
     ELSE [ frame |-> <<>>, none |-> TRUE, calls |-> <<>> ]

\* forecast.insert(0, id_col, id_)
InsertId(frame, id) ==
  [k \in DOMAIN frame |-> [idx |-> frame[k].idx, id |-> id, step |-> frame[k].step]]

RECURSIVE Flatten(_)
Flatten(frames) == IF frames = <<>> THEN <<>> ELSE Head(frames) \o Flatten(Tail(frames))

\* Concat without ignore_index: every block keeps the index it came with
ConcatKeepIndex(frames) == Flatten(frames)

\* pd.concat(all_forecasts, axis=0, ignore_index=True)
Concat(frames) ==
  LET all == Flatten(frames)
  IN [k \in DOMAIN all |-> [all[k] EXCEPT !.idx = k - 1]]

\* the loop of predict over zip(all_ids, all_series), from position k on
RECURSIVE PredictLoop(_, _, _, _, _, _)
PredictLoop(o, panel, k, covariates, frames, calls) ==
  IF k > Len(o.all_ids) THEN [res |-> "ok", frames |-> frames, calls |-> calls]
  ELSE LET id == o.all_ids[k]
       IN IF id \notin DOMAIN o.end_index
          THEN [res |-> "KeyError", frames |-> frames, calls |-> calls]
          ELSE LET s == PredictOnSeries(o, id, panel[id], covariates)
               IN IF s.none
                  THEN [res |-> "AttributeError", frames |-> frames, calls |-> calls]
                  ELSE PredictLoop(o, panel, k + 1, covariates,
                                   Append(frames, InsertId(s.frame, id)),
                                   calls \o s.calls)

\* PredictResult looping over the ids found in the test data instead of the
\* ids recorded at fit
PredictResultTestIds(o, sch, panel) ==
  IF ~o.is_trained
  THEN [res |-> "NotFittedError", out |-> NoOut, schema |-> sch]
  ELSE LET sch1 == AddFutureCovariates(sch, FALSE)
           loop == PredictLoop([o EXCEPT !.all_ids = GroupKeys(panel)], panel, 1,
                               sch1.future_covariates, <<>>, <<>>)
       IN IF loop.res # "ok"
          THEN [res |-> loop.res,
                out |-> [rows |-> <<>>, calls |-> loop.calls], schema |-> sch1]
          ELSE IF loop.frames = <<>>
          THEN [res |-> "ValueError",
                out |-> [rows |-> <<>>, calls |-> loop.calls], schema |-> sch1]
          ELSE [res |-> "ok",
                out |-> [rows |-> Concat(loop.frames), calls |-> loop.calls],
                schema |-> sch1]

\* -------------------------------------------------------------- predict
\* what predict returns or raises, and the schema object afterwards
PredictResult(o, sch, panel) ==
  IF ~o.is_trained
  THEN [res |-> "NotFittedError", out |-> NoOut, schema |-> sch]
  ELSE LET sch1 == AddFutureCovariates(sch, FALSE)
       IN IF \E k \in DOMAIN o.all_ids : panel[o.all_ids[k]] = 0
          THEN [res |-> "KeyError", out |-> NoOut, schema |-> sch1]
          ELSE LET loop == PredictLoop(o, panel, 1, sch1.future_covariates, <<>>, <<>>)
               IN IF loop.res # "ok"
                  THEN [res |-> loop.res,
                        out |-> [rows |-> <<>>, calls |-> loop.calls], schema |-> sch1]
                  ELSE IF loop.frames = <<>>
                  THEN [res |-> "ValueError",
                        out |-> [rows |-> <<>>, calls |-> loop.calls], schema |-> sch1]
                  ELSE [res |-> "ok",
                        out |-> [rows |-> Concat(loop.frames), calls |-> loop.calls],
                        schema |-> sch1]

\* model.predict(test_data, prediction_col_name)
Predict(panel) ==
  LET r == PredictResult(self, SchemaOf(self), panel)
  IN /\ lastOp' = [op |-> "predict", res |-> r.res, arg |-> panel, out |-> r.out]
     /\ schema' = IF self.data_schema.ref = "shared" THEN r.schema ELSE schema
     /\ self' = IF self.data_schema.ref = "shared" THEN self
                ELSE [self EXCEPT !.data_schema.val = r.schema]
     /\ UNCHANGED <<hp, disk, nfits, fitDone, lastFit, saved>>

\* ------------------------------------------------------------ save, load
\* Serialize that leaves the end-index table out of the pickle
SerializeNoEndIndex(o, sch) ==
  [ file |-> PREDICTOR_FILE_NAME,
    obj |-> [o EXCEPT !.data_schema = [ref |-> "own", val |-> sch],
                      !.end_index = <<>>] ]

\* joblib.dump(self, ...): the pickle holds the instance and, by value, the
\* schema object it points at
Serialize(o, sch) ==
  [ file |-> PREDICTOR_FILE_NAME,
    obj |-> [o EXCEPT !.data_schema = [ref |-> "own", val |-> sch]] ]

\* joblib.load(...): a new instance with a schema object of its own
Deserialize(blob) == blob.obj

\* model.save(model_dir_path)
Save ==
  /\ IF ~self.is_trained
     THEN /\ lastOp' = [op |-> "save", res |-> "NotFittedError",
                        arg |-> NoPanel, out |-> NoOut]
          /\ UNCHANGED <<disk, saved>>
     ELSE /\ disk' = Serialize(self, SchemaOf(self))
          /\ saved' = [o |-> self, schema |-> SchemaOf(self), fit |-> lastFit]
          /\ lastOp' = [op |-> "save", res |-> "ok", arg |-> NoPanel, out |-> NoOut]
  /\ UNCHANGED <<schema, hp, self, nfits, fitDone, lastFit>>

\* model = Forecaster.load(model_dir_path)
Load ==
  /\ IF disk = NoFile
     THEN /\ lastOp' = [op |-> "load", res |-> "FileNotFoundError",
                        arg |-> NoPanel, out |-> NoOut]
          /\ UNCHANGED <<self, lastFit>>
     ELSE /\ self' = Deserialize(disk)
          /\ lastFit' = saved.fit
          /\ lastOp' = [op |-> "load", res |-> "ok", arg |-> NoPanel, out |-> NoOut]
  /\ UNCHANGED <<schema, hp, disk, nfits, fitDone, saved>>

\* ----------------------------------------------------------- the system
Init ==
  /\ schema \in [ time_col_dtype : TimeColDtypes,
                  future_covariates : DeclaredCovariates,
                  forecast_length : ForecastLengths ]
  /\ hp \in [history_forecast_ratio : HistoryForecastRatios, use_exogenous : BOOLEAN]
  /\ self = Forecaster(schema, hp.history_forecast_ratio, hp.use_exogenous)
  /\ disk = NoFile
  /\ lastOp = [op |-> "init", res |-> "ok", arg |-> NoPanel, out |-> NoOut]
  /\ nfits = 0
  /\ fitDone = FALSE
  /\ lastFit = "none"
  /\ saved = [o |-> self, schema |-> schema, fit |-> "none"]

Next ==
  \/ \E p \in HistoryPanels, bad \in {0} \cup Ids : Fit(p, bad)
  \/ FitOther
  \/ \E p \in TestPanels : Predict(p)
  \/ Save
  \/ Load

Spec == Init /\ [][Next]_vars

\* =============================================================== claims
Range(seq) == {seq[k] : k \in DOMAIN seq}
Recorded(o) == Range(o.all_ids)
HasAllRecorded(panel, o) == \A id \in Recorded(o) : panel[id] > 0
Pos(seq, x) == CHOOSE k \in DOMAIN seq : seq[k] = x
Restrict(panel, ids) == [i \in DOMAIN panel |-> IF i \in ids THEN panel[i] ELSE 0]

\* rows is one block per id of ids, in the order of ids, the block of id
\* holding panel[id] rows that carry id, under a row index 0..N-1
BlocksInOrder(rows, ids, panel) ==
  /\ \A j \in DOMAIN rows : rows[j].idx = j - 1 /\ rows[j].id \in Range(ids)
  /\ \A id \in Range(ids) : Cardinality({j \in DOMAIN rows : rows[j].id = id}) = panel[id]
  /\ \A i, j \in DOMAIN rows : i < j => Pos(ids, rows[i].id) <= Pos(ids, rows[j].id)

\* C1: as long as no fit call has returned normally (a fit that raised
\* part-way included), the instance is untrained, predict and save both
\* raise NotFittedError, and no file has been written.
C1_NotFittedBeforeFit ==
  ~fitDone =>
    /\ ~self.is_trained
    /\ disk = NoFile
    /\ lastOp.op \in {"predict", "save"} => lastOp.res = "NotFittedError"

C1_Witness ==
  /\ ~fitDone
  /\ lastFit = "raised"
  /\ lastOp.op = "predict"
  /\ lastOp.res = "NotFittedError"
  /\ DOMAIN self.end_index # {}

\* C2 as stated: when the last fit succeeded and the test data holds every
\* recorded id, predict returns one block per recorded id, in the recorded
\* order, each as long as the id's input rows and carrying the id, under a
\* fresh row index 0..N-1.
C2_BlocksPerRecordedId ==
  (lastOp.op = "predict" /\ lastFit = "ok" /\ HasAllRecorded(lastOp.arg, self)) =>
    /\ lastOp.res = "ok"
    /\ BlocksInOrder(lastOp.out.rows, self.all_ids, lastOp.arg)

\* C2 amended: the same, for a forecaster that recorded at least one id.
C2_BlocksPerRecordedIdNonEmpty ==
  (/\ lastOp.op = "predict"
   /\ lastFit = "ok"
   /\ self.all_ids # <<>>
   /\ HasAllRecorded(lastOp.arg, self)) =>
    /\ lastOp.res = "ok"
    /\ BlocksInOrder(lastOp.out.rows, self.all_ids, lastOp.arg)

C2_Witness ==
  /\ lastOp.op = "predict"
  /\ lastOp.res = "ok"
  /\ lastFit = "ok"
  /\ self.all_ids = <<1, 2>>
  /\ lastOp.arg[1] = 2
  /\ lastOp.arg[2] = 1
  /\ Len(lastOp.out.rows) = 3

\* C3: between public operations the model mapping and the end-index table
\* have the same keys.
C3_SameKeys == DOMAIN self.models = DOMAIN self.end_index

\* C4: a fit call that raises commits nothing: every attribute of the
\* instance is after the call what it was before it.
C4_FailedFitCommitsNothing ==
  [][(lastOp'.op = "fit" /\ lastOp'.res # "ok") =>
       /\ self'.models = self.models
       /\ self'.end_index = self.end_index
       /\ self'.all_ids = self.all_ids
       /\ self'.data_schema = self.data_schema
       /\ self'.is_trained = self.is_trained]_vars

\* C5: with use_exogenous on and a DATE/DATETIME time column, every series
\* predict forecasts is given the covariate columns its model was fitted
\* with, year and month among them, and predict leaves the registered
\* covariate list as it was.
C5_SameCovariatesAtPredict ==
  [][(/\ lastOp'.op = "predict"
      /\ self.use_exogenous
      /\ IsDateType(SchemaOf(self).time_col_dtype)) =>
       /\ schema' = schema
       /\ self' = self
       /\ \A k \in DOMAIN lastOp'.out.calls :
            LET c == lastOp'.out.calls[k]
            IN /\ c.exog = c.model.exog
               /\ {year_col_name, month_col_name} \subseteq Range(c.exog)]_vars

\* C6: a fit that succeeds right after a successful fit of the same instance
\* on the same data and schema leaves the same id list, end-index table and
\* per-id models (covariate list and training rows).
C6_RefitSameState ==
  [][(/\ lastOp.op = "fit" /\ lastOp.res = "ok"
      /\ lastOp'.op = "fit" /\ lastOp'.res = "ok"
      /\ lastOp'.arg = lastOp.arg) =>
       /\ self'.all_ids = self.all_ids
       /\ self'.end_index = self.end_index
       /\ self'.models = self.models]_vars

UnseenIn(panel, o) == {i \in DOMAIN panel : panel[i] > 0} \ Recorded(o)

\* C7 as stated: test data holding every recorded id and some id not
\* recorded makes predict raise nothing and return no row of such an id, the
\* rows being those predict returns without the unrecorded ids.
C7_UnseenIdsIgnored ==
  (/\ lastOp.op = "predict"
   /\ self.is_trained
   /\ HasAllRecorded(lastOp.arg, self)
   /\ UnseenIn(lastOp.arg, self) # {}) =>
    /\ lastOp.res = "ok"
    /\ \A j \in DOMAIN lastOp.out.rows : lastOp.out.rows[j].id \in Recorded(self)
    /\ lastOp.out.rows =
         PredictResult(self, SchemaOf(self), Restrict(lastOp.arg, Recorded(self))).out.rows

\* C7 amended: such test data makes predict do exactly what it does without
\* the unrecorded ids (the same rows, or the same error), no row of the
\* output carries an unrecorded id, and predict raises nothing when at least
\* one id is recorded and every recorded id has a model.
C7_UnseenIdsChangeNothing ==
  (/\ lastOp.op = "predict"
   /\ self.is_trained
   /\ HasAllRecorded(lastOp.arg, self)
   /\ UnseenIn(lastOp.arg, self) # {}) =>
    LET r == PredictResult(self, SchemaOf(self), Restrict(lastOp.arg, Recorded(self)))
    IN /\ lastOp.res = r.res
       /\ lastOp.out = r.out
       /\ \A j \in DOMAIN lastOp.out.rows : lastOp.out.rows[j].id \in Recorded(self)
       /\ (self.all_ids # <<>> /\ Recorded(self) \subseteq DOMAIN self.models)
            => lastOp.res = "ok"

C7_Witness ==
  /\ lastOp.op = "predict"
  /\ lastOp.res = "ok"
  /\ self.all_ids = <<2>>
  /\ lastOp.arg[1] > 0
  /\ 1 \in DOMAIN self.end_index
  /\ Len(lastOp.out.rows) = lastOp.arg[2]

\* the attributes of an instance other than the pointer to its schema
Attrs(o) ==
  [ use_exogenous |-> o.use_exogenous, random_state |-> o.random_state,
    is_trained |-> o.is_trained, models |-> o.models, end_index |-> o.end_index,
    all_ids |-> o.all_ids, history_length |-> o.history_length ]

RowsUsed(n) ==
  IF hp.history_forecast_ratio = 0 THEN n
  ELSE Min(n, schema.forecast_length * hp.history_forecast_ratio)

\* C9: after a successful fit the end index of every fitted id is the number
\* of rows its model was trained on: all rows of the series, or at most
\* forecast_length * history_forecast_ratio of them when that is configured;
\* predict hands the library, for k forward rows of an id, the index values
\* end_index[id] .. end_index[id]+k-1, which continue from the training rows.
C9_EndIndexIsRowsUsed ==
  /\ (lastOp.op = "fit" /\ lastOp.res = "ok") =>
       \A id \in Ids : lastOp.arg[id] > 0 =>
         /\ id \in DOMAIN self.end_index /\ id \in DOMAIN self.models
         /\ self.end_index[id] = RowsUsed(lastOp.arg[id])
         /\ self.models[id].n_rows = RowsUsed(lastOp.arg[id])
  /\ lastOp.op = "predict" =>
       \A k \in DOMAIN lastOp.out.calls :
         LET c == lastOp.out.calls[k]
         IN /\ c.index = [j \in 1..lastOp.arg[c.id] |-> self.end_index[c.id] + j - 1]
            /\ self.end_index[c.id] = c.model.n_rows

C9_Witness ==
  /\ lastOp.op = "predict"
  /\ lastOp.res = "ok"
  /\ hp.history_forecast_ratio # 0
  /\ \E k \in DOMAIN lastOp.out.calls :
       /\ lastOp.out.calls[k].model.first_row > 0
       /\ Len(lastOp.out.calls[k].index) = 2
       /\ lastOp.out.calls[k].index[2] = self.end_index[lastOp.out.calls[k].id] + 1

\* C10: when a recorded id has no entry in the model mapping, predict on
\* test data holding every recorded id raises nothing and returns the
\* blocks of the recorded ids that do have a model.
C10_MissingModelDropped ==
  (/\ lastOp.op = "predict"
   /\ self.is_trained
   /\ HasAllRecorded(lastOp.arg, self)
   /\ Recorded(self) \ DOMAIN self.models # {}) =>
    /\ lastOp.res = "ok"
    /\ {lastOp.out.rows[j].id : j \in DOMAIN lastOp.out.rows}
         = Recorded(self) \cap DOMAIN self.models
====
